---- MODULE Spec2Model ----
(***************************************************************************)
(* The diagram rendering and interaction engine of dbmlRenderer            *)
(* (src/src/diagram/DiagramRenderer.js): DiagramRenderer, TableRenderer    *)
(* and RelationshipRenderer, as a state machine over the events the        *)
(* browser delivers to it (wheel, mousedown, mousemove, mouseup) and the   *)
(* calls of its public operations (render, zoomIn, zoomOut, setZoom,       *)
(* zoomToStandard, resetZoom).                                             *)
(*                                                                         *)
(* JavaScript numbers are modelled as exact rationals <<n, d>> in lowest   *)
(* terms with d > 0; IEEE-754 rounding is not modelled.  Strings that the  *)
(* code takes apart (table and relationship names) are sequences of        *)
(* one-character strings; <<>> stands for a missing or empty (falsy)       *)
(* string, and the id 0 for a missing or zero (falsy) id.                  *)
(***************************************************************************)
EXTENDS Integers, Sequences, FiniteSets, TLC

(***************************************************************************)
(* Numbers                                                                 *)
(***************************************************************************)
RECURSIVE GCD(_, _)
GCD(a, b) == IF b = 0 THEN a ELSE GCD(b, a % b)

IAbs(n) == IF n < 0 THEN -n ELSE n

\* the rational n/d (d # 0) in lowest terms with a positive denominator
Q(n, d) ==
  LET g == GCD(IAbs(n), IAbs(d))
      s == IF d < 0 THEN -1 ELSE 1
  IN  <<(s * n) \div g, (s * d) \div g>>

Num(n) == <<n, 1>>

RNeg(a) == <<-a[1], a[2]>>

RAdd(a, b) ==
  LET g == GCD(a[2], b[2])
  IN  Q(a[1] * (b[2] \div g) + b[1] * (a[2] \div g), (a[2] \div g) * b[2])

RSub(a, b) == RAdd(a, RNeg(b))

RMul(a, b) ==
  LET g1 == GCD(IAbs(a[1]), b[2])
      g2 == GCD(IAbs(b[1]), a[2])
  IN  Q((a[1] \div g1) * (b[1] \div g2), (a[2] \div g2) * (b[2] \div g1))

\* a / b for b # 0
RDiv(a, b) == RMul(a, IF b[1] < 0 THEN <<-b[2], -b[1]>> ELSE <<b[2], b[1]>>)

RLt(a, b) ==
  LET g == GCD(a[2], b[2])
  IN  a[1] * (b[2] \div g) < b[1] * (a[2] \div g)

RLe(a, b) == ~RLt(b, a)

\* Math.max, Math.min and Math.abs on numbers
RMax(a, b) == IF RLt(a, b) THEN b ELSE a
RMin(a, b) == IF RLt(b, a) THEN b ELSE a
RAbs(a) == <<IAbs(a[1]), a[2]>>

Pt(x, y) == [x |-> x, y |-> y]

(***************************************************************************)
(* Program constants                                                       *)
(***************************************************************************)
minZoom == Q(1, 4)
maxZoom == Num(3)
ZoomStepFactor == Q(11, 10)
WheelOutFactor == Q(19, 20)
WheelInFactor == Q(21, 20)
TableWidth == 250
HeaderHeight == 35
FieldHeight == 30
GridCols == 3
GridSpacingX == 300
GridSpacingY == 250
GridOrigin == 50
DragMargin == 1000
ConnectOffsetX == 50
StraightThreshold == 15
TableMargin == 20

(***************************************************************************)
(* The environment: the svg's bounding client rect and client size, and    *)
(* the inputs the events and calls are drawn from                          *)
(***************************************************************************)
RectLeft == 20
RectTop == 10
ClientWidth == 300
ClientHeight == 200
MaxTables == 5
MaxEvents == 4
MaxNameLen == 6

(***************************************************************************)
(* Strings that are taken apart                                            *)
(***************************************************************************)
Sep == <<"_", "t", "o", "_">>

\* s.startsWith(p)
StartsWith(s, p) == Len(s) >= Len(p) /\ SubSeq(s, 1, Len(p)) = p

\* the tail of s from its (1-based) position i on
Drop(s, i) == SubSeq(s, i, Len(s))

\* the 1-based position of the first occurrence of p in s, 0 when there is none
RECURSIVE IndexFrom(_, _, _)
IndexFrom(s, p, i) ==
  IF i + Len(p) - 1 > Len(s) THEN 0
  ELSE IF SubSeq(s, i, i + Len(p) - 1) = p THEN i
  ELSE IndexFrom(s, p, i + 1)

IndexOf(s, p) == IndexFrom(s, p, 1)

\* String.prototype.includes
Includes(s, p) == IndexOf(s, p) # 0

\* String.prototype.split with a non-empty separator
RECURSIVE Split(_, _)
Split(s, p) ==
  LET i == IndexOf(s, p)
  IN  IF i = 0 THEN <<s>>
      ELSE <<SubSeq(s, 1, i - 1)>> \o Split(Drop(s, i + Len(p)), p)

(***************************************************************************)
(* Insertion-ordered maps (JavaScript Map): sequences of records with a    *)
(* key field, at most one record per key                                   *)
(***************************************************************************)
\* the position of key k in map m, 0 when absent
MapIndex(m, k) ==
  IF \E i \in 1..Len(m) : m[i].key = k
  THEN CHOOSE i \in 1..Len(m) : m[i].key = k
  ELSE 0

\* Map.prototype.set: an existing key keeps its place and takes the new entry
MapSet(m, entry) ==
  LET i == MapIndex(m, entry.key)
  IN  IF i = 0 THEN Append(m, entry) ELSE [m EXCEPT ![i] = entry]

\* table.id || table.name, ref.id || ref.name
KeyOf(o) ==
  IF o.id # 0 THEN [id |-> o.id, name |-> <<>>] ELSE [id |-> 0, name |-> o.name]

\* Array.prototype.findIndex(f => f.name === fieldName), 0-based, -1 when absent
FieldIndex(fields, fieldName) ==
  IF \E i \in 1..Len(fields) : fields[i] = fieldName
  THEN (CHOOSE i \in 1..Len(fields) :
          fields[i] = fieldName /\ \A j \in 1..(i - 1) : fields[j] # fieldName) - 1
  ELSE -1

(***************************************************************************)
(* RelationshipRenderer                                                    *)
(***************************************************************************)
NoRelInfo ==
  [ok |-> FALSE, fromTable |-> <<>>, fromField |-> "", toTable |-> <<>>, toField |-> ""]

\* faulty variant, for sensitivity: the two parts of the name are taken in the other order
parseRelationshipSwapped(ref) ==
  IF ref.fromTable # <<>> /\ ref.toTable # <<>>
  THEN [ok |-> TRUE, fromTable |-> ref.fromTable, fromField |-> ref.fromField,
        toTable |-> ref.toTable, toField |-> ref.toField]
  ELSE IF ref.name # <<>> /\ Includes(ref.name, Sep)
  THEN LET parts == Split(ref.name, Sep)
       IN  IF Len(parts) = 2
           THEN [ok |-> TRUE, fromTable |-> parts[2], fromField |-> "id",
                 toTable |-> parts[1], toField |-> "id"]
           ELSE NoRelInfo
  ELSE NoRelInfo

\* faulty variant, for sensitivity: the name convention comes before the explicit tables
parseRelationshipNameFirst(ref) ==
  IF ref.name # <<>> /\ Includes(ref.name, Sep) /\ Len(Split(ref.name, Sep)) = 2
  THEN LET parts == Split(ref.name, Sep)
       IN  [ok |-> TRUE, fromTable |-> parts[1], fromField |-> "id",
            toTable |-> parts[2], toField |-> "id"]
  ELSE IF ref.fromTable # <<>> /\ ref.toTable # <<>>
  THEN [ok |-> TRUE, fromTable |-> ref.fromTable, fromField |-> ref.fromField,
        toTable |-> ref.toTable, toField |-> ref.toField]
  ELSE NoRelInfo

\* parseRelationship(): ok = FALSE stands for the null result
parseRelationship(ref) ==
  IF ref.fromTable # <<>> /\ ref.toTable # <<>>
  THEN [ok |-> TRUE, fromTable |-> ref.fromTable, fromField |-> ref.fromField,
        toTable |-> ref.toTable, toField |-> ref.toField]
  ELSE IF ref.name # <<>> /\ Includes(ref.name, Sep)
  THEN LET parts == Split(ref.name, Sep)
       IN  IF Len(parts) = 2
           THEN [ok |-> TRUE, fromTable |-> parts[1], fromField |-> "id",
                 toTable |-> parts[2], toField |-> "id"]
           ELSE NoRelInfo
  ELSE NoRelInfo

\* faulty variant, for sensitivity: a vertical difference of exactly the threshold is still straight
createManhattanPathInclusive(start, end) ==
  IF RLe(RAbs(RSub(start.y, end.y)), Num(StraightThreshold))
  THEN <<Pt(start.x, start.y), Pt(end.x, end.y)>>
  ELSE LET targetTableX == RSub(end.x, Num(ConnectOffsetX))
           bendX == RSub(targetTableX, Num(TableMargin))
       IN  <<Pt(start.x, start.y), Pt(bendX, start.y), Pt(bendX, end.y), Pt(end.x, end.y)>>

\* createManhattanPath(start, end): the points of the path string, in order
\* (the first after M, the others after L)
createManhattanPath(start, end) ==
  IF RLt(RAbs(RSub(start.y, end.y)), Num(StraightThreshold))
  THEN <<Pt(start.x, start.y), Pt(end.x, end.y)>>
  ELSE LET targetTableX == RSub(end.x, Num(ConnectOffsetX))
           bendX == RSub(targetTableX, Num(TableMargin))
       IN  <<Pt(start.x, start.y), Pt(bendX, start.y), Pt(bendX, end.y), Pt(end.x, end.y)>>

\* faulty variant, for sensitivity: an unknown field connects at the table's top
getConnectionPointAtTop(tableData, fieldName) ==
  LET fieldIndex == FieldIndex(tableData.table.fields, fieldName)
      fieldY == IF fieldIndex = -1 THEN tableData.y
                ELSE RAdd(tableData.y, Num(HeaderHeight + fieldIndex * FieldHeight + 15))
  IN  Pt(RAdd(tableData.x, Num(ConnectOffsetX)), fieldY)

\* getConnectionPoint(tableData, fieldName, otherTableData, isTarget)
getConnectionPoint(tableData, fieldName) ==
  LET fieldIndex == FieldIndex(tableData.table.fields, fieldName)
      fieldY == IF fieldIndex = -1
                THEN RAdd(tableData.y, RDiv(Num(tableData.height), Num(2)))
                ELSE RAdd(tableData.y, Num(HeaderHeight + fieldIndex * FieldHeight + 15))
  IN  Pt(RAdd(tableData.x, Num(ConnectOffsetX)), fieldY)

\* findTableByName(tableName): the position in the table map of the first
\* entry whose table has that name, 0 for null
findTableByName(tbls, tableName) ==
  IF \E i \in 1..Len(tbls) : tbls[i].table.name = tableName
  THEN CHOOSE i \in 1..Len(tbls) :
         /\ tbls[i].table.name = tableName
         /\ \A j \in 1..(i - 1) : tbls[j].table.name # tableName
  ELSE 0

\* faulty variant, for sensitivity: a missing table is not noticed, the other table stands in for it
updatePathUnchecked(tbls, el) ==
  IF ~el.relInfo.ok THEN el
  ELSE LET from == findTableByName(tbls, el.relInfo.fromTable)
           to == findTableByName(tbls, el.relInfo.toTable)
       IN  IF from = 0 /\ to = 0 THEN el
           ELSE [el EXCEPT !.d = createManhattanPath(
                          getConnectionPoint(tbls[IF from = 0 THEN to ELSE from],
                                             el.relInfo.fromField),
                          getConnectionPoint(tbls[IF to = 0 THEN from ELSE to],
                                             el.relInfo.toField))]

\* faulty variant, for sensitivity: each call adds its path to the one before
updatePathExtending(tbls, el) ==
  IF ~el.relInfo.ok THEN el
  ELSE LET from == findTableByName(tbls, el.relInfo.fromTable)
           to == findTableByName(tbls, el.relInfo.toTable)
       IN  IF from = 0 \/ to = 0 THEN el
           ELSE [el EXCEPT !.d = @ \o createManhattanPath(
                          getConnectionPoint(tbls[from], el.relInfo.fromField),
                          getConnectionPoint(tbls[to], el.relInfo.toField))]

\* updatePath() of the renderer that owns connector element el
updatePath(tbls, el) ==
  IF ~el.relInfo.ok THEN el
  ELSE LET from == findTableByName(tbls, el.relInfo.fromTable)
           to == findTableByName(tbls, el.relInfo.toTable)
       IN  IF from = 0 \/ to = 0 THEN el
           ELSE [el EXCEPT !.d = createManhattanPath(
                          getConnectionPoint(tbls[from], el.relInfo.fromField),
                          getConnectionPoint(tbls[to], el.relInfo.toField))]

(***************************************************************************)
(* DiagramRenderer: rendering.  A diagram D is the record of the table     *)
(* map (tables), the tables layer (tablesLayer: the table elements, each   *)
(* with the state of the drag closure makeDraggable attached to it), the   *)
(* relationship map (relationships) and the refs layer (refsLayer: the     *)
(* connector elements, each with its renderer's relInfo and its d).        *)
(***************************************************************************)
\* faulty variant, for sensitivity: the column is taken from the row count
GridXByRow(index) == (index \div GridCols) * GridSpacingX + GridOrigin

GridX(index) == (index % GridCols) * GridSpacingX + GridOrigin
GridY(index) == (index \div GridCols) * GridSpacingY + GridOrigin

\* faulty variant, for sensitivity: the relationship map is not cleared
clearDiagramKeepingRelationships(D) ==
  [D EXCEPT !.tables = <<>>, !.tablesLayer = <<>>, !.refsLayer = <<>>]

clearDiagram(D) ==
  [tables |-> <<>>, tablesLayer |-> <<>>, relationships |-> <<>>, refsLayer |-> <<>>]

\* the element TableRenderer.render() returns, placed and made draggable
NewTableElement(table, x, y) ==
  [table |-> table, x |-> Num(x), y |-> Num(y), opacity |-> 100,
   isDragging |-> FALSE, startX |-> Num(0), startY |-> Num(0),
   startMouseX |-> 0, startMouseY |-> 0]

\* renderTables(tables), from the table at 1-based position i on
RECURSIVE renderTablesFrom(_, _, _)
renderTablesFrom(D, ts, i) ==
  IF i > Len(ts) THEN D
  ELSE LET table == ts[i]
           x == GridX(i - 1)
           y == GridY(i - 1)
           layer == Append(D.tablesLayer, NewTableElement(table, x, y))
           entry == [key |-> KeyOf(table), table |-> table, el |-> Len(layer),
                     x |-> Num(x), y |-> Num(y), width |-> TableWidth,
                     height |-> HeaderHeight + Len(table.fields) * FieldHeight]
       IN  renderTablesFrom([D EXCEPT !.tablesLayer = layer,
                                      !.tables = MapSet(D.tables, entry)], ts, i + 1)

renderTables(D, ts) == renderTablesFrom(D, ts, 1)

\* renderRelationships(refs), from the ref at 1-based position i on
RECURSIVE renderRelationshipsFrom(_, _, _)
renderRelationshipsFrom(D, refs, i) ==
  IF i > Len(refs) THEN D
  ELSE LET ref == refs[i]
           relInfo == parseRelationship(ref)
           refElement == updatePath(D.tables, [ref |-> ref, relInfo |-> relInfo, d |-> <<>>])
           layer == Append(D.refsLayer, refElement)
       IN  IF ~relInfo.ok THEN renderRelationshipsFrom(D, refs, i + 1)
           ELSE renderRelationshipsFrom(
                  [D EXCEPT !.refsLayer = layer,
                            !.relationships = MapSet(D.relationships,
                               [key |-> KeyOf(ref), ref |-> ref, el |-> Len(layer)])],
                  refs, i + 1)

renderRelationships(D, refs) == renderRelationshipsFrom(D, refs, 1)

\* updateAllRelationships(): updatePath() of every renderer in the map
updateAllRelationships(D) ==
  [D EXCEPT !.refsLayer =
     [j \in 1..Len(D.refsLayer) |->
        IF \E i \in 1..Len(D.relationships) : D.relationships[i].el = j
        THEN updatePath(D.tables, D.refsLayer[j])
        ELSE D.refsLayer[j]]]

\* autoLayout()
autoLayout(D) ==
  LET placed == [i \in 1..Len(D.tables) |->
                   [D.tables[i] EXCEPT !.x = Num(GridX(i - 1)), !.y = Num(GridY(i - 1))]]
      layer == [j \in 1..Len(D.tablesLayer) |->
                  IF \E i \in 1..Len(placed) : placed[i].el = j
                  THEN LET i == CHOOSE i \in 1..Len(placed) : placed[i].el = j
                       IN  [D.tablesLayer[j] EXCEPT !.x = placed[i].x, !.y = placed[i].y]
                  ELSE D.tablesLayer[j]]
  IN  updateAllRelationships([D EXCEPT !.tables = placed, !.tablesLayer = layer])

\* render(dbmlData): NoSchema stands for a missing dbmlData, schemas or schemas[0]
NoSchema == [present |-> FALSE, tables |-> <<>>, refs |-> <<>>]

\* faulty variant, for sensitivity: a missing schema leaves the diagram as it is
renderIgnoringMissing(D, dbmlData) ==
  IF ~dbmlData.present THEN D
  ELSE autoLayout(renderRelationships(renderTables(clearDiagram(D), dbmlData.tables),
                                      dbmlData.refs))

render(D, dbmlData) ==
  IF ~dbmlData.present THEN clearDiagram(D)
  ELSE autoLayout(renderRelationships(renderTables(clearDiagram(D), dbmlData.tables),
                                      dbmlData.refs))

(***************************************************************************)
(* DiagramRenderer: the view transform                                     *)
(***************************************************************************)
\* screenToWorld(screenX, screenY) under zoom z and pan pn
screenToWorld(z, pn, screenX, screenY) ==
  Pt(RDiv(RSub(screenX, pn.x), z), RDiv(RSub(screenY, pn.y), z))

\* worldToScreen(worldX, worldY) under zoom z and pan pn
worldToScreen(z, pn, worldX, worldY) ==
  Pt(RAdd(RMul(worldX, z), pn.x), RAdd(RMul(worldY, z), pn.y))

\* faulty variant, for sensitivity: the upper limit is not applied
clampZoomNoMax(z) == RMax(minZoom, z)

\* Math.max(this.minZoom, Math.min(this.maxZoom, z))
clampZoom(z) == RMax(minZoom, RMin(maxZoom, z))

\* faulty variant, for sensitivity: the step is added, not multiplied
zoomInTargetAdditive(z) == RMin(maxZoom, RAdd(z, Q(1, 10)))

\* the zoom zoomIn() hands to setZoom
zoomInTarget(z) == RMin(maxZoom, RMul(z, ZoomStepFactor))

\* the zoom zoomOut() hands to setZoom
zoomOutTarget(z) == RMax(minZoom, RDiv(z, ZoomStepFactor))

\* the zoom factor of a wheel event
wheelFactor(deltaY) == IF deltaY > 0 THEN WheelOutFactor ELSE WheelInFactor

\* faulty variant, for sensitivity: the zoom point is taken after the zoom has changed
wheelPanLate(z, pn, newZoom, mouseX, mouseY) ==
  LET zoomPoint == screenToWorld(newZoom, pn, mouseX, mouseY)
      newScreenPoint == worldToScreen(z, pn, zoomPoint.x, zoomPoint.y)
  IN  Pt(RAdd(pn.x, RSub(mouseX, newScreenPoint.x)),
         RAdd(pn.y, RSub(mouseY, newScreenPoint.y)))

\* the pan the wheel handler leaves, zooming from z to newZoom at (mouseX, mouseY)
wheelPan(z, pn, newZoom, mouseX, mouseY) ==
  LET zoomPoint == screenToWorld(z, pn, mouseX, mouseY)
      newScreenPoint == worldToScreen(newZoom, pn, zoomPoint.x, zoomPoint.y)
  IN  Pt(RAdd(pn.x, RSub(mouseX, newScreenPoint.x)),
         RAdd(pn.y, RSub(mouseY, newScreenPoint.y)))

\* the transform attribute updateViewport() writes
viewportTransform(z, pn) == [x |-> pn.x, y |-> pn.y, scale |-> z]

(***************************************************************************)
(* DiagramRenderer: dragging.  A closure is the record of the variables    *)
(* one makeDraggable call closes over; the closures of the elements in the *)
(* tables layer are part of the elements, those of elements a later render *)
(* removed are kept in the sequence stale while they are still dragging.   *)
(***************************************************************************)
\* setAllTablesOpacity(opacity): the elements the table map refers to
setAllTablesOpacity(D, opacity) ==
  [D EXCEPT !.tablesLayer =
     [j \in 1..Len(D.tablesLayer) |->
        IF \E i \in 1..Len(D.tables) : D.tables[i].el = j
        THEN [D.tablesLayer[j] EXCEPT !.opacity = opacity]
        ELSE D.tablesLayer[j]]]

\* onMouseDown(e) of the closure of element j of the tables layer
onMouseDown(D, j, mouseX, mouseY) ==
  LET dimmed == setAllTablesOpacity(D, 30)
      element == dimmed.tablesLayer[j]
  IN  [dimmed EXCEPT !.tablesLayer[j] =
         [element EXCEPT !.isDragging = TRUE, !.opacity = 80,
                         !.startMouseX = mouseX, !.startMouseY = mouseY,
                         !.startX = element.x, !.startY = element.y]]

\* the position onMouseMove computes: start plus the pointer's displacement,
\* held within the drag margins around the viewport
dragTarget(c, z, currentMouseX, currentMouseY) ==
  LET deltaX == currentMouseX - c.startMouseX
      deltaY == currentMouseY - c.startMouseY
      newX == RAdd(c.startX, Num(deltaX))
      newY == RAdd(c.startY, Num(deltaY))
  IN  Pt(newX, newY)

\* faulty variant, for sensitivity: the lower margin is not applied
constrainAbove(v, extent, z) == RMin(v, RAdd(RDiv(Num(extent), z), Num(DragMargin)))

\* Math.max(-1000, Math.min(v, extent / zoom + 1000))
constrain(v, extent, z) ==
  RMax(Num(-DragMargin), RMin(v, RAdd(RDiv(Num(extent), z), Num(DragMargin))))

\* onMouseMove(e) of closure c; j is its element's place in the tables layer,
\* 0 when a render has removed the element
onMouseMove(D, c, j, z, currentMouseX, currentMouseY) ==
  IF ~c.isDragging THEN D
  ELSE LET new == dragTarget(c, z, currentMouseX, currentMouseY)
           constrainedX == constrain(new.x, ClientWidth, z)
           constrainedY == constrain(new.y, ClientHeight, z)
           layer == IF j = 0 THEN D.tablesLayer
                    ELSE [D.tablesLayer EXCEPT ![j].x = constrainedX,
                                               ![j].y = constrainedY]
           i == MapIndex(D.tables, KeyOf(c.table))
           tbls == IF i = 0 THEN D.tables
                   ELSE [D.tables EXCEPT ![i].x = constrainedX, ![i].y = constrainedY]
       IN  updateAllRelationships([D EXCEPT !.tablesLayer = layer, !.tables = tbls])

\* the document's mousemove listeners of the closures, in the order they were
\* added: those of removed elements first, from the k-th on
RECURSIVE staleMouseMoves(_, _, _, _, _, _)
staleMouseMoves(D, st, k, z, mx, my) ==
  IF k > Len(st) THEN D
  ELSE staleMouseMoves(onMouseMove(D, st[k], 0, z, mx, my), st, k + 1, z, mx, my)

RECURSIVE liveMouseMoves(_, _, _, _, _)
liveMouseMoves(D, j, z, mx, my) ==
  IF j > Len(D.tablesLayer) THEN D
  ELSE liveMouseMoves(onMouseMove(D, D.tablesLayer[j], j, z, mx, my), j + 1, z, mx, my)

\* faulty variant, for sensitivity: the closures keep dragging
onMouseUpIgnored(D) == setAllTablesOpacity(D, 100)

\* onMouseUp() of every closure
onMouseUpAll(D) ==
  LET released == [D EXCEPT !.tablesLayer =
                     [j \in 1..Len(D.tablesLayer) |->
                        [D.tablesLayer[j] EXCEPT !.isDragging = FALSE]]]
  IN  setAllTablesOpacity(released, 100)

\* faulty variant, for sensitivity: the press on a header reaches the svg
headerPressPropagates == TRUE

\* whether a mousedown on a table header goes on to the svg's listener:
\* onMouseDown ends with e.stopPropagation(), so it does not
headerPressReachesSvg == FALSE

\* faulty variant, for sensitivity: the displacement is divided by the zoom
updatePanScaled(z, pn, lastPt, clientX, clientY) ==
  Pt(RAdd(pn.x, RDiv(Num(clientX - lastPt.x), z)),
     RAdd(pn.y, RDiv(Num(clientY - lastPt.y), z)))

\* updatePan(e): the pan offset after a move to (clientX, clientY)
updatePan(z, pn, lastPt, clientX, clientY) ==
  Pt(RAdd(pn.x, Num(clientX - lastPt.x)), RAdd(pn.y, Num(clientY - lastPt.y)))

\* faulty variant, for sensitivity: the pan offset is kept
resetPanKept(pn) == pn

\* resetZoom(): this.state.pan = { x: 0, y: 0 }
resetPan(pn) == Pt(Num(0), Num(0))

\* Math.round of a positive number: the nearest integer, halves upwards
Round(q) == (2 * q[1] + q[2]) \div (2 * q[2])

\* faulty variant, for sensitivity: the percentage is cut, not rounded
updateZoomDisplayCut(z) == (100 * z[1]) \div z[2]

\* updateZoomDisplay(zoom): the percentage the zoom display shows
updateZoomDisplay(z) == Round(RMul(z, Num(100)))

\* faulty variant, for sensitivity: every primary-button press starts a pan
startsPanOnPrimary(button, shiftKey, isPanModeActive) == button = 1 \/ button = 0

\* the svg mousedown listener's test for starting a pan
startsPan(button, shiftKey, isPanModeActive) ==
  button = 1 \/ (button = 0 /\ (shiftKey \/ isPanModeActive))

(***************************************************************************)
(* Inputs                                                                  *)
(***************************************************************************)
\* pointer positions (clientX, clientY): inside the svg, and far outside it
PressPoint == <<RectLeft + 100, RectTop + 40>>
NearPoint == <<RectLeft + 160, RectTop + 70>>
FarUpLeft == <<RectLeft + 100 - 5050, RectTop + 40 - 5050>>
FarDownRight == <<RectLeft + 100 + 3000, RectTop + 40 + 3000>>
MovePoints == {PressPoint, NearPoint, FarUpLeft, FarDownRight}
WheelPoints == {PressPoint, <<RectLeft, RectTop>>}
WheelDeltas == {-100, 100}
Buttons == {0, 1, 2}

\* the arguments of setZoom: below, inside and above the range
ZoomInputs == {Num(-2), Num(0), Q(13, 50), Q(29, 10), Num(5)}

\* schemas: tables are [id, name, fields], refs are
\* [id, name, fromTable, fromField, toTable, toField]
Table(id, name, fields) == [id |-> id, name |-> name, fields |-> fields]
Ref(id, name, ft, ff, tt, tf) ==
  [id |-> id, name |-> name, fromTable |-> ft, fromField |-> ff,
   toTable |-> tt, toField |-> tf]
Name(i) == <<"t", ToString(i)>>
Users == <<"u">>
Posts == <<"p">>

\* what the widget's parser hands over for users, posts and posts.user_id > users.id
SchemaBlog ==
  [present |-> TRUE,
   tables |-> <<Table(0, Users, <<"id">>), Table(1, Posts, <<"id", "user_id">>)>>,
   refs |-> <<Ref(0, Posts \o Sep \o Users, Posts, "user_id", Users, "id")>>]

\* n tables without ids; relationships by explicit tables (without id or name),
\* by the naming convention, to an absent table, unresolvable ones, and one
\* whose name reads the other way round than its explicit tables
SchemaGrid(n) ==
  [present |-> TRUE,
   tables |-> [i \in 1..n |-> Table(0, Name(i - 1), <<"id", "ref_id">>)],
   refs |-> <<Ref(0, <<>>, Name(0), "ref_id", Name(1), "id"),
              Ref(0, <<>>, Name(1), "nope", Name(0), "id"),
              Ref(0, Name(n - 1) \o Sep \o Name(0), <<>>, "", <<>>, ""),
              Ref(0, Name(0) \o Sep \o <<"z">>, <<>>, "", <<>>, ""),
              Ref(0, <<"x">>, <<>>, "", <<>>, ""),
              Ref(7, Name(0) \o Sep \o Name(1) \o Sep \o Name(0), <<>>, "", <<>>, ""),
              Ref(0, Name(1) \o Sep \o Name(0), Name(0), "ref_id", Name(1), "id")>>]

(***************************************************************************)
(* DbDiagramViewer: the element around the renderer.  A DBML text is the   *)
(* sequence of the statements the parser's patterns find in it             *)
(***************************************************************************)
TableStmt(name, fields) == [kind |-> "Table", name |-> name, fields |-> fields]
RefStmt(ft, ff, tt, tf) ==
  [kind |-> "Ref", fromTable |-> ft, fromField |-> ff, toTable |-> tt, toField |-> tf]

\* the empty text
TextEmpty == <<>>

\* getDefaultDbml(): users and posts, the reference written inside a field
TextDefault ==
  <<TableStmt(Users, <<"id", "username", "email", "created_at">>),
    TableStmt(Posts, <<"id", "user_id", "title", "content", "created_at">>)>>

\* users, posts and Ref: posts.user_id > users.id
TextBlog ==
  <<TableStmt(Users, <<"id">>), TableStmt(Posts, <<"id", "user_id">>),
    RefStmt(Posts, "user_id", Users, "id")>>

\* a text the DBML parser rejects
TextInvalid == <<[kind |-> "Invalid"]>>

\* simpleParseDml(dbmlCode): tables and refs numbered in the order found
simpleParseDml(dbmlCode) ==
  LET ts == SelectSeq(dbmlCode, LAMBDA st : st.kind = "Table")
      rs == SelectSeq(dbmlCode, LAMBDA st : st.kind = "Ref")
  IN  [present |-> TRUE,
       tables |-> [i \in 1..Len(ts) |-> Table(i - 1, ts[i].name, ts[i].fields)],
       refs |-> [i \in 1..Len(rs) |->
                   Ref(i - 1, rs[i].fromTable \o Sep \o rs[i].toTable,
                       rs[i].fromTable, rs[i].fromField,
                       rs[i].toTable, rs[i].toField)]]

\* parseDbml(dbmlCode) fails: the parser throws on a text it rejects
parseThrows(dbmlCode) == \E i \in 1..Len(dbmlCode) : dbmlCode[i].kind = "Invalid"

\* the element after its constructor, before it is connected; ace says
\* whether window.ace is there, attr is its dbml attribute ('' when absent)
NewWidget(ace, attr) ==
  [ace |-> ace, attr |-> attr, connected |-> FALSE,
   editor |-> FALSE, value |-> TextEmpty, initial |-> TextEmpty,
   currentDbml |-> TextEmpty, timer |-> FALSE,
   diagramRenderer |-> FALSE, placeholder |-> FALSE,
   fired |-> <<>>, errors |-> 0, renders |-> 0]

\* faulty variant, for sensitivity: window.ace is not looked at
aceMissingIgnored(w) == FALSE

\* connectedCallback(): if (!window.ace)
aceMissing(w) == ~w.ace

\* faulty variant, for sensitivity: no placeholder is shown
showDiagramErrorSilent(w) == w

\* showDiagramError(message): the container's content becomes the placeholder
showDiagramError(w) ==
  IF w.diagramRenderer THEN [w EXCEPT !.placeholder = TRUE] ELSE w

\* renderDiagram(): the element and the diagram after it, whether render()
\* of the renderer was called, and with what
renderDiagram(w, D) ==
  IF ~w.diagramRenderer
  THEN [w |-> w, D |-> D, rendered |-> FALSE, dbmlData |-> NoSchema]
  ELSE IF parseThrows(w.currentDbml)
  THEN [w |-> showDiagramError([w EXCEPT !.errors = @ + 1]), D |-> D,
        rendered |-> FALSE, dbmlData |-> NoSchema]
  ELSE [w |-> [w EXCEPT !.renders = @ + 1],
        D |-> render(D, simpleParseDml(w.currentDbml)),
        rendered |-> TRUE, dbmlData |-> simpleParseDml(w.currentDbml)]

\* editor.setValue(text): the editor's change event arms the debounce timer
\* unless nothing is removed and nothing is inserted
setValue(w, text) ==
  [w EXCEPT !.value = text,
            !.timer = @ \/ w.value # TextEmpty \/ text # TextEmpty]

\* onDbmlChange()
onDbmlChange(w, D) ==
  IF w.value # w.currentDbml
  THEN LET r == renderDiagram([w EXCEPT !.currentDbml = w.value], D)
       IN  [r EXCEPT !.w.fired = Append(@, w.value)]
  ELSE [w |-> w, D |-> D, rendered |-> FALSE, dbmlData |-> NoSchema]

(***************************************************************************)
(* State                                                                   *)
(***************************************************************************)
VARIABLES
  zoom,           \* this.state.zoom
  pan,            \* this.state.pan
  transform,      \* the transform attribute of the viewport layer
  isPanning,      \* this.isPanning
  lastPanPoint,   \* this.lastPanPoint
  tables,         \* this.tables
  tablesLayer,    \* this.layers.tables, with the drag closures of its elements
  relationships,  \* this.relationships
  refsLayer,      \* this.layers.refs
  stale,          \* the closures of removed table elements that are still dragging
  notified,       \* the argument of the last call of this.onZoomChange, <<>> before any
  zoomDisplay,    \* the percentage shown by the widget's zoom display
  widget,         \* the DbDiagramViewer element
  schema,         \* history: the argument of the last render
  last,           \* history: the last event or call handled
  dragged,        \* history: a drag move has changed a stored table position
  call,           \* the last call of a pure function, with its arguments
  ret,            \* what that call returned
  used            \* the number of events and calls handled, against MaxEvents

vars == <<zoom, pan, transform, isPanning, lastPanPoint, tables, tablesLayer,
          relationships, refsLayer, stale, notified, zoomDisplay, widget, schema,
          last, dragged, call, ret, used>>
view == <<zoom, pan, transform>>
panning == <<isPanning, lastPanPoint>>
diagram == <<tables, tablesLayer, relationships, refsLayer, stale>>
observer == <<notified, zoomDisplay>>
probe == <<call, ret>>
NoCall == [fn |-> "none"]

Diagram ==
  [tables |-> tables, tablesLayer |-> tablesLayer,
   relationships |-> relationships, refsLayer |-> refsLayer]

SetDiagram(D) ==
  /\ tables' = D.tables
  /\ tablesLayer' = D.tablesLayer
  /\ relationships' = D.relationships
  /\ refsLayer' = D.refsLayer

\* arg is the argument of setZoom and, for a wheel event, the zoom it called
\* onZoomChange with (0 when it made no call); changed says that a zoom call
\* or a wheel event changed the zoom, that a mousedown started a pan, and
\* that a mousemove found a pan or a drag in progress
Event(op, clientX, clientY, button, target, arg, changed) ==
  [op |-> op, clientX |-> clientX, clientY |-> clientY, button |-> button,
   target |-> target, arg |-> arg, changed |-> changed]

\* the state the constructor leaves, with the observer initDiagram() registers
\* and its updateZoomDisplay(1.0)
Constructed ==
  /\ zoom = Num(1)
  /\ pan = Pt(Num(0), Num(0))
  /\ transform = viewportTransform(Num(1), Pt(Num(0), Num(0)))
  /\ isPanning = FALSE
  /\ lastPanPoint = Pt(0, 0)
  /\ tables = <<>>
  /\ tablesLayer = <<>>
  /\ relationships = <<>>
  /\ refsLayer = <<>>
  /\ stale = <<>>
  /\ notified = <<>>
  /\ zoomDisplay = updateZoomDisplay(Num(1))
  /\ schema = NoSchema
  /\ last = Event("new", 0, 0, 0, 0, Num(0), FALSE)
  /\ dragged = FALSE
  /\ used = 0

\* the diagram as constructed, no call pending; the element is left alone
Init ==
  /\ Constructed
  /\ widget = NewWidget(TRUE, TextEmpty)
  /\ call = NoCall
  /\ ret = NoCall

\* one more event or call is handled
Step ==
  /\ used < MaxEvents
  /\ used' = used + 1
  /\ UNCHANGED <<probe, widget>>

\* this.onZoomChange(z): the observer initDiagram() registers
Notify(z) ==
  /\ notified' = z
  /\ zoomDisplay' = updateZoomDisplay(z)

(***************************************************************************)
(* Calls of the public operations                                          *)
(***************************************************************************)
\* setZoom(z), with its updateViewport()
DoSetZoom(z) ==
  /\ zoom' = clampZoom(z)
  /\ transform' = viewportTransform(clampZoom(z), pan)
  /\ Notify(zoom')
  /\ UNCHANGED <<pan, panning, diagram, schema, dragged>>

SetZoom(z) ==
  /\ Step
  /\ DoSetZoom(z)
  /\ last' = Event("setZoom", 0, 0, 0, 0, z, zoom' # zoom)

ZoomIn ==
  /\ Step
  /\ DoSetZoom(zoomInTarget(zoom))
  /\ last' = Event("zoomIn", 0, 0, 0, 0, Num(0), zoom' # zoom)

ZoomOut ==
  /\ Step
  /\ DoSetZoom(zoomOutTarget(zoom))
  /\ last' = Event("zoomOut", 0, 0, 0, 0, Num(0), zoom' # zoom)

ZoomToStandard ==
  /\ Step
  /\ DoSetZoom(Num(1))
  /\ last' = Event("zoomToStandard", 0, 0, 0, 0, Num(0), zoom' # zoom)

ResetZoom ==
  /\ Step
  /\ zoom' = Num(1)
  /\ pan' = resetPan(pan)
  /\ transform' = viewportTransform(zoom', pan')
  /\ Notify(zoom')
  /\ last' = Event("resetZoom", 0, 0, 0, 0, Num(0), zoom' # zoom)
  /\ UNCHANGED <<panning, diagram, schema, dragged>>

\* faulty variant, for sensitivity: a render shows the diagram at the standard view
RenderResettingView(dbmlData) ==
  /\ Step
  /\ SetDiagram(render(Diagram, dbmlData))
  /\ stale' = stale \o SelectSeq(tablesLayer, LAMBDA el : el.isDragging)
  /\ schema' = dbmlData
  /\ zoom' = Num(1)
  /\ pan' = Pt(Num(0), Num(0))
  /\ transform' = viewportTransform(zoom', pan')
  /\ last' = Event("render", 0, 0, 0, 0, Num(0), FALSE)
  /\ UNCHANGED <<panning, observer, dragged>>

Render(dbmlData) ==
  /\ Step
  /\ SetDiagram(render(Diagram, dbmlData))
  /\ stale' = stale \o SelectSeq(tablesLayer, LAMBDA el : el.isDragging)
  /\ schema' = dbmlData
  /\ last' = Event("render", 0, 0, 0, 0, Num(0), FALSE)
  /\ UNCHANGED <<view, panning, observer, dragged>>

(***************************************************************************)
(* Events                                                                  *)
(***************************************************************************)
\* faulty variant, for sensitivity: the wheel releases the tables
WheelEndingDrag(clientX, clientY, deltaY) ==
  LET mouseX == Num(clientX - RectLeft)
      mouseY == Num(clientY - RectTop)
      newZoom == clampZoom(RMul(zoom, wheelFactor(deltaY)))
  IN  /\ Step
      /\ IF newZoom # zoom
         THEN /\ zoom' = newZoom
              /\ pan' = wheelPan(zoom, pan, newZoom, mouseX, mouseY)
              /\ transform' = viewportTransform(zoom', pan')
              /\ Notify(zoom')
              /\ last' = Event("wheel", clientX, clientY, deltaY, 0, zoom', TRUE)
         ELSE /\ UNCHANGED <<view, observer>>
              /\ last' = Event("wheel", clientX, clientY, deltaY, 0, Num(0), FALSE)
      /\ SetDiagram(onMouseUpAll(Diagram))
      /\ stale' = <<>>
      /\ UNCHANGED <<panning, schema, dragged>>

\* faulty variant, for sensitivity: the wheel goes on when the zoom stays
WheelAlwaysNotifying(clientX, clientY, deltaY) ==
  LET mouseX == Num(clientX - RectLeft)
      mouseY == Num(clientY - RectTop)
      newZoom == clampZoom(RMul(zoom, wheelFactor(deltaY)))
  IN  /\ Step
      /\ zoom' = newZoom
      /\ pan' = wheelPan(zoom, pan, newZoom, mouseX, mouseY)
      /\ transform' = viewportTransform(zoom', pan')
      /\ Notify(zoom')
      /\ last' = Event("wheel", clientX, clientY, deltaY, 0, zoom', newZoom # zoom)
      /\ UNCHANGED <<panning, diagram, schema, dragged>>

\* the svg's wheel listener
Wheel(clientX, clientY, deltaY) ==
  LET mouseX == Num(clientX - RectLeft)
      mouseY == Num(clientY - RectTop)
      newZoom == clampZoom(RMul(zoom, wheelFactor(deltaY)))
  IN  /\ Step
      /\ IF newZoom # zoom
         THEN /\ zoom' = newZoom
              /\ pan' = wheelPan(zoom, pan, newZoom, mouseX, mouseY)
              /\ transform' = viewportTransform(zoom', pan')
              /\ Notify(zoom')
              /\ last' = Event("wheel", clientX, clientY, deltaY, 0, zoom', TRUE)
         ELSE /\ UNCHANGED <<view, observer>>
              /\ last' = Event("wheel", clientX, clientY, deltaY, 0, Num(0), FALSE)
      /\ UNCHANGED <<panning, diagram, schema, dragged>>

\* mousedown on the header of element j of the tables layer: the closure's
\* onMouseDown, which stops the propagation to the svg's listener
HeaderMouseDown(j, clientX, clientY, button) ==
  /\ Step
  /\ j \in 1..Len(tablesLayer)
  /\ SetDiagram(onMouseDown(Diagram, j, clientX - RectLeft, clientY - RectTop))
  /\ IF headerPressReachesSvg /\ startsPan(button, FALSE, FALSE)
     THEN /\ isPanning' = TRUE
          /\ lastPanPoint' = Pt(clientX, clientY)
     ELSE UNCHANGED panning
  /\ last' = Event("headerdown", clientX, clientY, button, j, Num(0), FALSE)
  /\ UNCHANGED <<view, observer, stale, schema, dragged>>

\* mousedown elsewhere on the svg: the svg's mousedown listener
CanvasMouseDown(clientX, clientY, button, shiftKey, isPanModeActive) ==
  /\ Step
  /\ IF startsPan(button, shiftKey, isPanModeActive)
     THEN /\ isPanning' = TRUE
          /\ lastPanPoint' = Pt(clientX, clientY)
     ELSE UNCHANGED panning
  /\ last' = Event("canvasdown", clientX, clientY, button, 0, Num(0),
                   startsPan(button, shiftKey, isPanModeActive))
  /\ UNCHANGED <<view, observer, diagram, schema, dragged>>

\* mousemove anywhere: the document's listeners, the renderer's own first
MouseMove(clientX, clientY) ==
  LET active == isPanning \/ stale # <<>>
                  \/ \E j \in 1..Len(tablesLayer) : tablesLayer[j].isDragging
      mx == clientX - RectLeft
      my == clientY - RectTop
  IN  /\ Step
      /\ IF isPanning
         THEN /\ pan' = updatePan(zoom, pan, lastPanPoint, clientX, clientY)
              /\ lastPanPoint' = Pt(clientX, clientY)
              /\ transform' = viewportTransform(zoom, pan')
              /\ UNCHANGED <<zoom, isPanning>>
         ELSE UNCHANGED <<view, panning>>
      /\ SetDiagram(liveMouseMoves(staleMouseMoves(Diagram, stale, 1, zoom, mx, my),
                                   1, zoom, mx, my))
      /\ last' = Event("mousemove", clientX, clientY, 0, 0, Num(0), active)
      /\ dragged' = (dragged \/ tables' # tables)
      /\ UNCHANGED <<observer, stale, schema>>

\* mouseup anywhere: the document's listeners
MouseUp ==
  /\ Step
  /\ isPanning' = FALSE
  /\ SetDiagram(onMouseUpAll(Diagram))
  /\ stale' = <<>>
  /\ last' = Event("mouseup", 0, 0, 0, 0, Num(0), FALSE)
  /\ UNCHANGED <<view, observer, lastPanPoint, schema, dragged>>

Next ==
  \/ \E z \in ZoomInputs : SetZoom(z)
  \/ ZoomIn
  \/ ZoomOut
  \/ ZoomToStandard
  \/ ResetZoom
  \/ \E S \in {NoSchema, SchemaBlog, SchemaGrid(MaxTables)} : Render(S)
  \/ \E p \in WheelPoints, deltaY \in WheelDeltas : Wheel(p[1], p[2], deltaY)
  \/ \E j \in 1..MaxTables, b \in Buttons :
       HeaderMouseDown(j, PressPoint[1], PressPoint[2], b)
  \/ \E b \in Buttons, shiftKey \in BOOLEAN, isPanModeActive \in BOOLEAN :
       CanvasMouseDown(PressPoint[1], PressPoint[2], b, shiftKey, isPanModeActive)
  \/ \E p \in MovePoints : MouseMove(p[1], p[2])
  \/ MouseUp

Spec == Init /\ [][Next]_vars

(***************************************************************************)
(* createManhattanPath() on its own: the constructor's state with one      *)
(* pending call, which the only action performs                            *)
(***************************************************************************)
PathXs == {Num(0), Num(60), Num(400)}
PathYs == {Num(0), Num(14), Q(29, 2), Num(15), Q(31, 2), Num(100)}
PathPoints == {Pt(x, y) : x \in PathXs, y \in PathYs}

InitPath ==
  /\ Constructed
  /\ widget = NewWidget(TRUE, TextEmpty)
  /\ call \in {[fn |-> "createManhattanPath", start |-> s, end |-> e] :
                 s \in PathPoints, e \in PathPoints}
  /\ ret = NoCall

CallCreateManhattanPath ==
  /\ call.fn = "createManhattanPath"
  /\ ret = NoCall
  /\ ret' = [fn |-> "createManhattanPath",
             value |-> createManhattanPath(call.start, call.end)]
  /\ UNCHANGED <<view, panning, diagram, observer, widget, schema, last, dragged,
                 call, used>>

SpecPath == InitPath /\ [][CallCreateManhattanPath]_vars

(***************************************************************************)
(* parseRelationship() on its own: every name over a small alphabet up to  *)
(* MaxNameLen characters and the name of the documented example, with and  *)
(* without explicit tables                                                 *)
(***************************************************************************)
NameAlphabet == {"a", "_", "t", "o"}
Orders == <<"o", "r", "d", "e", "r", "s">>
Customers == <<"c", "u", "s", "t", "o", "m", "e", "r", "s">>
OrdersToCustomers == Orders \o Sep \o Customers
RefNames ==
  UNION {[1..k -> NameAlphabet] : k \in 0..MaxNameLen} \cup {OrdersToCustomers}
ExplicitTables == {<<>>, <<"x">>}
ParseRefs ==
  {Ref(0, n, ft, IF ft = <<>> THEN "" ELSE "fk", tt, IF tt = <<>> THEN "" ELSE "id") :
     n \in RefNames, ft \in ExplicitTables, tt \in ExplicitTables}

InitParse ==
  /\ Constructed
  /\ widget = NewWidget(TRUE, TextEmpty)
  /\ call \in {[fn |-> "parseRelationship", ref |-> r] : r \in ParseRefs}
  /\ ret = NoCall

CallParseRelationship ==
  /\ call.fn = "parseRelationship"
  /\ ret = NoCall
  /\ ret' = [fn |-> "parseRelationship", value |-> parseRelationship(call.ref)]
  /\ UNCHANGED <<view, panning, diagram, observer, widget, schema, last, dragged,
                 call, used>>

SpecParse == InitParse /\ [][CallParseRelationship]_vars

(***************************************************************************)
(* The element: connection, edits, setDbml(), the dbml attribute, the      *)
(* debounce timer and the zoom-in button                                   *)
(***************************************************************************)
Texts == {TextEmpty, TextDefault, TextBlog, TextInvalid}

InitWidget ==
  /\ Constructed
  /\ widget \in {NewWidget(ace, attr) : ace \in BOOLEAN, attr \in {TextEmpty, TextBlog}}
  /\ call = NoCall
  /\ ret = NoCall

\* one handler of the element has run: r is what renderDiagram() or
\* onDbmlChange() left, op names the handler
WidgetStep(op, r) ==
  /\ used < MaxEvents
  /\ used' = used + 1
  /\ widget' = r.w
  /\ SetDiagram(r.D)
  /\ stale' = IF r.rendered
              THEN stale \o SelectSeq(tablesLayer, LAMBDA el : el.isDragging)
              ELSE stale
  /\ schema' = IF r.rendered THEN r.dbmlData ELSE schema
  /\ last' = Event(op, 0, 0, 0, 0, Num(0), r.rendered)
  /\ UNCHANGED <<view, panning, observer, dragged, probe>>

Unrendered(w) == [w |-> w, D |-> Diagram, rendered |-> FALSE, dbmlData |-> NoSchema]

\* connectedCallback(), with initEditor() and initDiagram()
Connect ==
  /\ ~widget.connected
  /\ IF aceMissing(widget)
     THEN WidgetStep("connect",
                     Unrendered([widget EXCEPT !.connected = TRUE, !.errors = @ + 1]))
     ELSE LET initialDbml == IF widget.attr # TextEmpty THEN widget.attr
                             ELSE TextDefault
          IN  WidgetStep("connect",
                         renderDiagram([widget EXCEPT !.connected = TRUE,
                                                      !.editor = TRUE,
                                                      !.value = initialDbml,
                                                      !.initial = initialDbml,
                                                      !.currentDbml = initialDbml,
                                                      !.diagramRenderer = TRUE],
                                       Diagram))

\* faulty variant, for sensitivity: every edit is handled at once
EditorInputImmediate(text) ==
  /\ widget.editor
  /\ text # widget.value
  /\ WidgetStep("input", onDbmlChange([widget EXCEPT !.value = text], Diagram))

\* the user changes the text in the editor: its change event arms the timer
EditorInput(text) ==
  /\ widget.editor
  /\ text # widget.value
  /\ WidgetStep("input", Unrendered([widget EXCEPT !.value = text, !.timer = TRUE]))

\* the debounce timer runs out: onDbmlChange()
TimerFires ==
  /\ widget.timer
  /\ WidgetStep("timer", onDbmlChange([widget EXCEPT !.timer = FALSE], Diagram))

\* setDbml(dbml)
SetDbml(text) ==
  WidgetStep("setDbml",
             Unrendered(IF widget.editor THEN setValue(widget, text) ELSE widget))

\* the dbml attribute is set: attributeChangedCallback('dbml', old, new)
SetAttribute(text) ==
  LET w == [widget EXCEPT !.attr = text]
  IN  IF ~widget.editor \/ widget.attr = text
      THEN WidgetStep("setAttribute", Unrendered(w))
      ELSE WidgetStep("setAttribute",
                      renderDiagram([setValue(w, text) EXCEPT !.currentDbml = text],
                                    Diagram))

\* a click on the zoom-in button, which is there while the container holds
\* the diagram
ZoomInButton ==
  /\ widget.diagramRenderer
  /\ ~widget.placeholder
  /\ ZoomIn

NextWidget ==
  \/ Connect
  \/ \E text \in Texts : EditorInput(text)
  \/ TimerFires
  \/ \E text \in Texts : SetDbml(text)
  \/ \E text \in Texts : SetAttribute(text)
  \/ ZoomInButton

SpecWidget == InitWidget /\ [][NextWidget]_vars

(***************************************************************************)
(* Properties                                                              *)
(***************************************************************************)
\* C1: after any sequence of zoomIn, zoomOut, setZoom(v), wheel events and
\* resetZoom the zoom lies in [0.25, 3.0]: 1/4 <= n/d <= 3
C1_ZoomInRange ==
  /\ zoom[2] > 0
  /\ 4 * zoom[1] >= zoom[2]
  /\ zoom[1] <= 3 * zoom[2]

\* a wheel event, after an earlier call, has run the zoom into the upper limit
C1_Witness ==
  /\ last.op = "wheel"
  /\ last.changed
  /\ used >= 2
  /\ zoom = Num(3)

\* C2: a wheel event leaves the world point under the pointer where it was:
\* screenToWorld(pointer) is the same before and after the event
C2_WheelAnchored ==
  [][last'.op = "wheel" =>
       LET mouseX == Num(last'.clientX - RectLeft)
           mouseY == Num(last'.clientY - RectTop)
       IN  screenToWorld(zoom', pan', mouseX, mouseY)
             = screenToWorld(zoom, pan, mouseX, mouseY)]_vars

\* a wheel event has zoomed out into the lower limit with the view panned
C2_Witness ==
  /\ last.op = "wheel"
  /\ last.changed
  /\ zoom = Q(1, 4)
  /\ pan.x # Num(0)
  /\ pan.y # Num(0)

\* C3: after render(schema) the table at index i of the schema is stored at
\* x = (i mod 3) * 300 + 50, y = floor(i / 3) * 250 + 50, whatever earlier
\* drags did; index 4 is at (350, 300)
C3_GridAfterRender ==
  (last.op = "render" /\ schema.present) =>
    /\ Len(tables) = Len(schema.tables)
    /\ \A i \in 0..(Len(schema.tables) - 1) :
         /\ tables[i + 1].table = schema.tables[i + 1]
         /\ tables[i + 1].x = Num((i % 3) * 300 + 50)
         /\ tables[i + 1].y = Num((i \div 3) * 250 + 50)
    /\ Len(schema.tables) > 4 => (tables[5].x = Num(350) /\ tables[5].y = Num(300))

\* a render of five or more tables after a drag had moved a table
C3_Witness ==
  /\ last.op = "render"
  /\ dragged
  /\ Len(tables) >= 5
  /\ tables[5].x = Num(350)
  /\ tables[5].y = Num(300)

\* the closures that are dragging: those of the elements in the tables layer
\* and those of removed elements
DraggingLive == {j \in 1..Len(tablesLayer) : tablesLayer[j].isDragging}
DraggingClosures ==
  {tablesLayer[j] : j \in DraggingLive} \cup {stale[k] : k \in 1..Len(stale)}

\* the connector path the current stored positions give element el, <<>> when
\* one of its tables is not in the table map
PathNow(el) ==
  LET from == findTableByName(tables, el.relInfo.fromTable)
      to == findTableByName(tables, el.relInfo.toTable)
  IN  IF ~el.relInfo.ok \/ from = 0 \/ to = 0 THEN <<>>
      ELSE createManhattanPath(getConnectionPoint(tables[from], el.relInfo.fromField),
                               getConnectionPoint(tables[to], el.relInfo.toField))

\* C4: after every event the path of every drawn connector is the Manhattan
\* path between the connection points the current stored positions of its two
\* tables give
C4_ConnectorsFollowTables ==
  \A j \in 1..Len(refsLayer) :
    (refsLayer[j].d # <<>> /\ PathNow(refsLayer[j]) # <<>>) =>
      refsLayer[j].d = PathNow(refsLayer[j])

SeqRange(q) == {q[i] : i \in 1..Len(q)}

\* C5: after render(S) the table map holds one entry per table of S, the
\* relationship map only relationships of S, and the two layers only elements
\* of tables and relationships of S
C5_RenderReplacesAll ==
  (last.op = "render" /\ schema.present) =>
    /\ Len(tables) = Len(schema.tables)
    /\ \A i \in 1..Len(tables) : tables[i].table = schema.tables[i]
    /\ \A i \in 1..Len(relationships) : relationships[i].ref \in SeqRange(schema.refs)
    /\ Len(tablesLayer) = Len(schema.tables)
    /\ \A j \in 1..Len(tablesLayer) : tablesLayer[j].table = schema.tables[j]
    /\ \A j \in 1..Len(refsLayer) : refsLayer[j].ref \in SeqRange(schema.refs)

\* the posts schema has been rendered while a table of an earlier render of
\* the grid schema was being dragged
C5_Witness ==
  /\ last.op = "render"
  /\ schema = SchemaBlog
  /\ Len(tables) = 2
  /\ stale # <<>>
  /\ stale[1].table.name = Name(0)

\* a relationship of schema S that resolves to a table S does not have
Dangling(ref, S) ==
  LET info == parseRelationship(ref)
      names == {S.tables[i].name : i \in 1..Len(S.tables)}
  IN  info.ok /\ (info.fromTable \notin names \/ info.toTable \notin names)

\* a relationship of schema S that resolves to two tables of S
Attached(ref, S) ==
  LET info == parseRelationship(ref)
      names == {S.tables[i].name : i \in 1..Len(S.tables)}
  IN  info.ok /\ info.fromTable \in names /\ info.toTable \in names

\* C6 as claimed: a relationship whose source or target table is absent has
\* no element in the connector layer and no entry in the relationship map
C6_NoElementForDangling ==
  (last.op = "render" /\ schema.present) =>
    \A k \in 1..Len(schema.refs) :
      Dangling(schema.refs[k], schema) =>
        /\ \A j \in 1..Len(refsLayer) : refsLayer[j].ref # schema.refs[k]
        /\ \A i \in 1..Len(relationships) : relationships[i].ref # schema.refs[k]

\* C6 as amended: a relationship whose source or target table is absent gets
\* a connector element without path data, so nothing is drawn for it; every
\* table is rendered and every relationship between two tables of the schema
\* gets a connector with a path
C6_DanglingHasNoPath ==
  (last.op = "render" /\ schema.present) =>
    /\ \A k \in 1..Len(schema.refs) :
         /\ Dangling(schema.refs[k], schema) =>
              /\ \E j \in 1..Len(refsLayer) : refsLayer[j].ref = schema.refs[k]
              /\ \A j \in 1..Len(refsLayer) :
                   refsLayer[j].ref = schema.refs[k] => refsLayer[j].d = <<>>
         /\ Attached(schema.refs[k], schema) =>
              \E j \in 1..Len(refsLayer) :
                refsLayer[j].ref = schema.refs[k] /\ refsLayer[j].d # <<>>
    /\ Len(tablesLayer) = Len(schema.tables)
    /\ \A j \in 1..Len(tablesLayer) : tablesLayer[j].table = schema.tables[j]

\* a schema with a relationship to an absent table has been rendered
C6_Witness ==
  /\ last.op = "render"
  /\ schema.present
  /\ \E j \in 1..Len(refsLayer) :
       Dangling(refsLayer[j].ref, schema) /\ refsLayer[j].d = <<>>
  /\ \E j \in 1..Len(refsLayer) : refsLayer[j].d # <<>>

\* the position a drag move of closure c to the mouse position of the last
\* event asks for, before it is constrained
Asked(c) ==
  Pt(RAdd(c.startX, Num(last.clientX - RectLeft - c.startMouseX)),
     RAdd(c.startY, Num(last.clientY - RectTop - c.startMouseY)))

\* C7: after a drag move the dragged table's stored x lies in
\* [-1000, clientWidth / zoom + 1000] and its y in
\* [-1000, clientHeight / zoom + 1000]; a move that asks for x = -5000 stores
\* x = -1000
C7_DragClamped ==
  last.op = "mousemove" =>
    \A c \in DraggingClosures :
      LET i == MapIndex(tables, KeyOf(c.table))
      IN  i # 0 =>
            /\ RLe(Num(-1000), tables[i].x)
            /\ RLe(tables[i].x, RAdd(RDiv(Num(ClientWidth), zoom), Num(1000)))
            /\ RLe(Num(-1000), tables[i].y)
            /\ RLe(tables[i].y, RAdd(RDiv(Num(ClientHeight), zoom), Num(1000)))
            /\ (Cardinality(DraggingClosures) = 1 /\ Asked(c).x = Num(-5000)) =>
                 tables[i].x = Num(-1000)

\* at a zoom other than 1 a move has asked for x = -5000 and x = -1000 is stored
C7_Witness ==
  /\ last.op = "mousemove"
  /\ zoom # Num(1)
  /\ stale = <<>>
  /\ \E j \in DraggingLive :
       /\ DraggingLive = {j}
       /\ Asked(tablesLayer[j]).x = Num(-5000)
       /\ \E i \in 1..Len(tables) : tables[i].el = j /\ tables[i].x = Num(-1000)

\* C8: on a drag move the table's position is its position at drag start plus
\* the pointer's displacement since the press divided by the zoom, constrained
C8_DragDeltaDividedByZoom ==
  (last.op = "mousemove" /\ stale = <<>>) =>
    \A j \in DraggingLive :
      DraggingLive = {j} =>
        LET c == tablesLayer[j]
            i == MapIndex(tables, KeyOf(c.table))
            deltaX == RDiv(Num(last.clientX - RectLeft - c.startMouseX), zoom)
            deltaY == RDiv(Num(last.clientY - RectTop - c.startMouseY), zoom)
            maxX == RAdd(RDiv(Num(ClientWidth), zoom), Num(1000))
            maxY == RAdd(RDiv(Num(ClientHeight), zoom), Num(1000))
        IN  i # 0 =>
              /\ tables[i].x = RMax(Num(-1000), RMin(RAdd(c.startX, deltaX), maxX))
              /\ tables[i].y = RMax(Num(-1000), RMin(RAdd(c.startY, deltaY), maxY))

\* C9: createManhattanPath(start, end) is the two points start, end when
\* |start.y - end.y| < 15, and otherwise the four points start,
\* (bendX, start.y), (bendX, end.y), end with bendX = end.x - 50 - 20
C9_ManhattanShape ==
  ret.fn = "createManhattanPath" =>
    LET start == call.start
        end == call.end
        bendX == RSub(RSub(end.x, Num(50)), Num(20))
    IN  IF RLt(RAbs(RSub(start.y, end.y)), Num(15))
        THEN ret.value = <<start, end>>
        ELSE ret.value = <<start, Pt(bendX, start.y), Pt(bendX, end.y), end>>

\* a vertical difference of exactly 15 has given a four-point path
C9_Witness ==
  /\ ret.fn = "createManhattanPath"
  /\ RSub(call.end.y, call.start.y) = Num(15)
  /\ Len(ret.value) = 4
  /\ ret.value[2] = Pt(RSub(call.end.x, Num(70)), call.start.y)

\* the positions at which the separator occurs in name n
SepPositions(n) == {i \in 1..(Len(n) - Len(Sep) + 1) : SubSeq(n, i, i + Len(Sep) - 1) = Sep}

\* C10: a relationship without explicit source and target tables whose name
\* is A, the separator '_to_', B, with the separator occurring once, resolves
\* to table A field 'id' and table B field 'id'; 'orders_to_customers'
\* resolves to orders.id and customers.id
C10_NameConvention ==
  ret.fn = "parseRelationship" =>
    LET ref == call.ref
    IN  (ref.fromTable = <<>> /\ ref.toTable = <<>>) =>
          /\ Cardinality(SepPositions(ref.name)) = 1 =>
               \A i \in SepPositions(ref.name) :
                 ret.value = [ok |-> TRUE,
                              fromTable |-> SubSeq(ref.name, 1, i - 1),
                              fromField |-> "id",
                              toTable |-> SubSeq(ref.name, i + Len(Sep), Len(ref.name)),
                              toField |-> "id"]
          /\ ref.name = OrdersToCustomers =>
               ret.value = [ok |-> TRUE, fromTable |-> Orders, fromField |-> "id",
                            toTable |-> Customers, toField |-> "id"]

\* the documented example has been resolved
C10_Witness ==
  /\ ret.fn = "parseRelationship"
  /\ call.ref.name = OrdersToCustomers
  /\ call.ref.fromTable = <<>>
  /\ call.ref.toTable = <<>>
  /\ ret.value.ok
  /\ ret.value.fromTable = Orders
  /\ ret.value.toTable = Customers

\* C11: render() with a missing schema leaves the table map, the relationship
\* map and both layers empty, whatever was rendered before
C11_MissingSchemaClears ==
  (last.op = "render" /\ ~schema.present) =>
    /\ tables = <<>>
    /\ relationships = <<>>
    /\ tablesLayer = <<>>
    /\ refsLayer = <<>>

\* a missing schema has been rendered while a table of an earlier render was
\* being dragged
C11_Witness ==
  /\ last.op = "render"
  /\ ~schema.present
  /\ stale # <<>>
  /\ tables = <<>>

\* a table is being dragged: a closure has isDragging set
AnyDragging == DraggingLive # {} \/ stale # <<>>

\* no gesture is in progress
Idle == ~AnyDragging /\ ~isPanning

\* C12: after a mouseup no table is dragging and the canvas is not panning;
\* while no gesture is in progress a mousemove changes no table position and
\* not the pan offset, and only a mousedown starts a gesture
C12_ReleaseEndsGestures ==
  [][/\ last'.op = "mouseup" => Idle'
     /\ (Idle /\ last'.op = "mousemove") =>
          /\ tables' = tables
          /\ tablesLayer' = tablesLayer
          /\ pan' = pan
     /\ (Idle /\ ~Idle') => last'.op \in {"headerdown", "canvasdown"}]_vars

\* after a pan has moved the view and has been released, a mousemove to
\* another position has found no gesture in progress
C12_Witness ==
  /\ last.op = "mousemove"
  /\ ~last.changed
  /\ Idle
  /\ lastPanPoint \notin {Pt(0, 0), Pt(PressPoint[1], PressPoint[2])}
  /\ Pt(last.clientX, last.clientY) # lastPanPoint

\* C13 as claimed: in no reachable state is a table dragging while the canvas
\* is panning
C13_NeverDragAndPan == ~(AnyDragging /\ isPanning)

\* C13 as amended: a mousedown on a table header starts a drag and leaves the
\* panning state as it is, a mousedown on the canvas leaves every drag closure
\* as it is, so one press never starts both gestures
C13_OnePressOneGesture ==
  [][/\ last'.op = "headerdown" =>
          /\ isPanning' = isPanning
          /\ tablesLayer'[last'.target].isDragging
     /\ last'.op = "canvasdown" =>
          /\ tablesLayer' = tablesLayer
          /\ stale' = stale
          /\ isPanning' = (isPanning \/ last'.changed)
     /\ (Idle /\ last'.op \in {"headerdown", "canvasdown"}) =>
          ~(AnyDragging' /\ isPanning')]_vars

\* a pan has been started while a table was dragging, and one mousemove has
\* moved the table and the pan offset
C13_Witness ==
  /\ last.op = "mousemove"
  /\ isPanning
  /\ DraggingLive # {}
  /\ dragged
  /\ pan # Pt(Num(0), Num(0))

\* C14: a mousedown that starts a pan records the pointer position and keeps
\* the pan offset; each mousemove while panning adds the pointer's
\* displacement since the recorded position to the pan offset, not divided by
\* the zoom, and records the new position; the zoom is kept, and so is every
\* table position unless a table is being dragged; a mouseup keeps the pan
\* offset
C14_PanUnscaled ==
  [][/\ (last'.op = "canvasdown" /\ last'.changed) =>
          /\ lastPanPoint' = Pt(last'.clientX, last'.clientY)
          /\ pan' = pan
          /\ zoom' = zoom
          /\ tables' = tables
     /\ (last'.op = "mousemove" /\ isPanning) =>
          /\ pan'.x = RAdd(pan.x, Num(last'.clientX - lastPanPoint.x))
          /\ pan'.y = RAdd(pan.y, Num(last'.clientY - lastPanPoint.y))
          /\ lastPanPoint' = Pt(last'.clientX, last'.clientY)
          /\ zoom' = zoom
          /\ ~AnyDragging => tables' = tables
     /\ last'.op = "mouseup" =>
          /\ pan' = pan
          /\ zoom' = zoom
          /\ tables' = tables]_vars

\* at a zoom other than 1, with tables rendered, a pan from the press point to
\* the near point has moved the pan offset from (0, 0) by (60, 30)
C14_Witness ==
  /\ last.op = "mousemove"
  /\ isPanning
  /\ ~AnyDragging
  /\ zoom # Num(1)
  /\ tables # <<>>
  /\ lastPanPoint = Pt(NearPoint[1], NearPoint[2])
  /\ pan = Pt(Num(NearPoint[1] - PressPoint[1]), Num(NearPoint[2] - PressPoint[2]))

\* C16: resetZoom() sets the zoom to 1 and the pan offset to (0, 0) and keeps
\* every table position and every connector
C16_ResetView ==
  [][last'.op = "resetZoom" =>
       /\ zoom' = Num(1)
       /\ pan' = Pt(Num(0), Num(0))
       /\ transform' = viewportTransform(Num(1), Pt(Num(0), Num(0)))
       /\ tables' = tables
       /\ tablesLayer' = tablesLayer
       /\ relationships' = relationships
       /\ refsLayer' = refsLayer]_vars

\* a reset has changed the zoom of a diagram with a drawn connector
C16_Witness ==
  /\ last.op = "resetZoom"
  /\ last.changed
  /\ zoom = Num(1)
  /\ pan = Pt(Num(0), Num(0))
  /\ \E j \in 1..Len(refsLayer) : refsLayer[j].d # <<>>

\* C20: every segment of the path of every connector is horizontal or
\* vertical
C20_SegmentsAxisAligned ==
  \A j \in 1..Len(refsLayer) :
    \A k \in 1..(Len(refsLayer[j].d) - 1) :
      \/ refsLayer[j].d[k].x = refsLayer[j].d[k + 1].x
      \/ refsLayer[j].d[k].y = refsLayer[j].d[k + 1].y

\* the operations that set the zoom
ZoomOps == {"zoomIn", "zoomOut", "setZoom", "zoomToStandard", "wheel", "resetZoom"}

\* C15: after every operation that has changed the zoom the observer has been
\* called with the new zoom; once it has been called the value it was called
\* with last is the current zoom; and the percentage shown is
\* round(zoom * 100)
C15_ObserverCurrent ==
  /\ (last.op \in ZoomOps /\ last.changed) => notified = zoom
  /\ notified # <<>> => notified = zoom
  /\ 2 * zoom[2] * zoomDisplay <= 200 * zoom[1] + zoom[2]
  /\ 200 * zoom[1] + zoom[2] < 2 * zoom[2] * (zoomDisplay + 1)

\* a wheel step and a zoomIn have brought the zoom to 1.155, shown as 116
C15_Witness ==
  /\ last.op \in ZoomOps
  /\ last.changed
  /\ zoom = Q(231, 200)
  /\ notified = zoom
  /\ zoomDisplay = 116

Announced(w) == IF w.fired = <<>> THEN w.initial ELSE w.fired[Len(w.fired)]

\* C18: once the debounce timer has run out, the last dbml-change event
\* carries the editor's text, whether the text was changed by an edit, by
\* setDbml() or by the dbml attribute; and an event is fired only with a text
\* other than the one announced before
C18_ChangeEventPerChange ==
  [][/\ (widget'.editor /\ ~widget'.timer) => Announced(widget') = widget'.value
     /\ widget'.fired # widget.fired =>
          /\ widget'.fired = Append(widget.fired, widget'.value)
          /\ widget'.value # Announced(widget)]_vars

\* C19: when window.ace is absent at connection, the failure is reported, no
\* editor and no renderer is created, and render() of the renderer is never
\* called afterwards
C19_NoAceNoRender ==
  (widget.connected /\ ~widget.ace) =>
    /\ widget.errors >= 1
    /\ ~widget.editor
    /\ ~widget.diagramRenderer
    /\ widget.renders = 0
    /\ ~widget.placeholder
    /\ tables = <<>>
    /\ tablesLayer = <<>>

\* after a connection without window.ace, setDbml() and a change of the dbml
\* attribute have been handled
C19_Witness ==
  /\ widget.connected
  /\ ~widget.ace
  /\ widget.errors = 1
  /\ last.op \in {"setDbml", "setAttribute"}
  /\ used >= 3

\* C21: a drag begins only on a press of the primary button on a table's
\* header: a step that leaves the state without a gesture for one with a table
\* dragging is such a press, on the header of the table that then drags
C21_DragOnlyOnPrimaryPress ==
  [][(Idle /\ AnyDragging') =>
       /\ last'.op = "headerdown"
       /\ last'.button = 0
       /\ DraggingLive' = {last'.target}]_vars

\* C22: a press on the canvas starts a pan when it is made with the middle
\* button, or with the primary button while Shift is held or the pan mode is
\* on, and then records the pointer position; every other press on the
\* canvas, and every press on a table header, leaves the panning state as it
\* is; only a press on the canvas starts a pan
C22_PanStartConditions ==
  [][/\ \A b \in Buttons, shiftKey \in BOOLEAN, isPanModeActive \in BOOLEAN :
          CanvasMouseDown(PressPoint[1], PressPoint[2], b, shiftKey, isPanModeActive) =>
            IF b = 1 \/ (b = 0 /\ (shiftKey \/ isPanModeActive))
            THEN isPanning' /\ lastPanPoint' = Pt(PressPoint[1], PressPoint[2])
            ELSE isPanning' = isPanning /\ lastPanPoint' = lastPanPoint
     /\ last'.op = "headerdown" => isPanning' = isPanning
     /\ (~isPanning /\ isPanning') => last'.op = "canvasdown"]_vars

\* a press of the primary button on the canvas, with Shift or the pan mode,
\* has started a pan
C22_Witness ==
  /\ last.op = "canvasdown"
  /\ last.button = 0
  /\ last.changed
  /\ isPanning
  /\ lastPanPoint = Pt(PressPoint[1], PressPoint[2])

\* the entries of the table map whose table a dragging closure drags
DraggedEntries ==
  {i \in 1..Len(tables) :
     \E c \in DraggingClosures : KeyOf(c.table) = tables[i].key}

\* C23: while a table is being dragged the opacity of its element is 0.8 and
\* that of the element of every other table in the table map is 0.3; while no
\* table is being dragged every table element has full opacity
C23_DragOpacity ==
  IF AnyDragging
  THEN \A i \in 1..Len(tables) :
         tablesLayer[tables[i].el].opacity = IF i \in DraggedEntries THEN 80 ELSE 30
  ELSE \A j \in 1..Len(tablesLayer) : tablesLayer[j].opacity = 100

\* the endpoint the claim gives a connector at field fieldName of the table of
\* map entry t
EndpointAt(t, fieldName) ==
  LET fs == t.table.fields
      ks == {k \in 0..(Len(fs) - 1) : fs[k + 1] = fieldName}
  IN  Pt(RAdd(t.x, Num(50)),
         IF ks = {}
         THEN RAdd(t.y, Q(35 + 30 * Len(fs), 2))
         ELSE LET k == CHOOSE k \in ks : \A other \in ks : k <= other
              IN  RAdd(t.y, Num(35 + 30 * k + 15)))

\* C24: after a render every connector whose two tables are in the table map
\* is drawn, from the endpoint of its source field to the endpoint of its
\* target field: x is the table's x plus 50, y is the table's y plus
\* 35 + 30k + 15 for the k-th field (0-based), and the table's y plus half of
\* 35 + 30 * fieldCount when the table has no field of that name
C24_ConnectionPoints ==
  last.op = "render" =>
    \A j \in 1..Len(refsLayer) :
      LET el == refsLayer[j]
          from == findTableByName(tables, el.relInfo.fromTable)
          to == findTableByName(tables, el.relInfo.toTable)
      IN  (from # 0 /\ to # 0) =>
            /\ el.d # <<>>
            /\ el.d[1] = EndpointAt(tables[from], el.relInfo.fromField)
            /\ el.d[Len(el.d)] = EndpointAt(tables[to], el.relInfo.toField)

\* a render has drawn a connector from a field its table does not have, and
\* one from the second field of a table
C24_Witness ==
  /\ last.op = "render"
  /\ \E j \in 1..Len(refsLayer) :
       LET el == refsLayer[j]
           from == findTableByName(tables, el.relInfo.fromTable)
       IN  /\ from # 0
           /\ el.d # <<>>
           /\ FieldIndex(tables[from].table.fields, el.relInfo.fromField) = -1
           /\ el.d[1].y = RAdd(tables[from].y, Q(95, 2))
  /\ \E j \in 1..Len(refsLayer) :
       LET el == refsLayer[j]
           from == findTableByName(tables, el.relInfo.fromTable)
       IN  /\ from # 0
           /\ el.d # <<>>
           /\ FieldIndex(tables[from].table.fields, el.relInfo.fromField) = 1
           /\ el.d[1].y = RAdd(tables[from].y, Num(80))

\* the table map without its i-th entry
Without(tbls, i) == SubSeq(tbls, 1, i - 1) \o SubSeq(tbls, i + 1, Len(tbls))

\* whether both tables of connector element el are in table map tbls
BothTables(tbls, el) ==
  /\ findTableByName(tbls, el.relInfo.fromTable) # 0
  /\ findTableByName(tbls, el.relInfo.toTable) # 0

\* C25: every recorded connector has been through updatePath() since the
\* stored positions last changed, and one more updatePath() leaves it as it
\* is, and so does a further one; updatePath() changes nothing when one of the
\* two tables is not in the table map, also when the element has a path and
\* the table is taken out of the map afterwards
C25_UpdatePathIdempotent ==
  \A r \in 1..Len(relationships) :
    LET el == refsLayer[relationships[r].el]
        once == updatePath(tables, el)
    IN  /\ once = el
        /\ updatePath(tables, once) = once
        /\ ~BothTables(tables, el) => el.d = <<>>
        /\ \A i \in 1..Len(tables) :
             ~BothTables(Without(tables, i), el) =>
               updatePath(Without(tables, i), el) = el

\* a mousemove during a drag has found the pointer where it was pressed: the
\* recorded connectors have been updated again with no position changed, one of
\* them drawn at the dragged table, one without its target table
C25_Witness ==
  /\ last.op = "mousemove"
  /\ last.changed
  /\ ~dragged
  /\ <<last.clientX, last.clientY>> = PressPoint
  /\ \E j \in DraggingLive, r \in 1..Len(relationships) :
       LET el == refsLayer[relationships[r].el]
       IN  /\ el.d # <<>>
           /\ el.relInfo.fromTable = tablesLayer[j].table.name
  /\ \E r \in 1..Len(relationships) :
       LET el == refsLayer[relationships[r].el]
       IN  el.d = <<>> /\ ~BothTables(tables, el)

\* whether ref names both its tables explicitly
Explicit(ref) == ref.fromTable # <<>> /\ ref.toTable # <<>>

\* whether the name of ref holds exactly one separator: one occurrence of
\* '_to_', and no second one after its end
OneSeparator(ref) ==
  /\ SepPositions(ref.name) # {}
  /\ \A p, q \in SepPositions(ref.name) : q - p < Len(Sep)

\* C26: after a render a relationship with explicit source and target tables
\* has connector elements, all with the explicit tables and fields as their
\* endpoints, whatever its name says; a relationship with neither explicit
\* tables nor exactly one separator in its name has no connector element and no
\* entry in the relationship map, and the render has gone through: every table
\* of the schema is rendered
C26_ExplicitFirstElseDropped ==
  (last.op = "render" /\ schema.present) =>
    /\ \A k \in 1..Len(schema.refs) :
         LET ref == schema.refs[k]
         IN  /\ Explicit(ref) =>
                  /\ \E j \in 1..Len(refsLayer) : refsLayer[j].ref = ref
                  /\ \A j \in 1..Len(refsLayer) :
                       refsLayer[j].ref = ref =>
                         refsLayer[j].relInfo =
                           [ok |-> TRUE,
                            fromTable |-> ref.fromTable, fromField |-> ref.fromField,
                            toTable |-> ref.toTable, toField |-> ref.toField]
             /\ (~Explicit(ref) /\ ~OneSeparator(ref)) =>
                  /\ \A j \in 1..Len(refsLayer) : refsLayer[j].ref # ref
                  /\ \A i \in 1..Len(relationships) : relationships[i].ref # ref
    /\ Len(tablesLayer) = Len(schema.tables)
    /\ Len(refsLayer) =
         Cardinality({k \in 1..Len(schema.refs) :
                        Explicit(schema.refs[k]) \/ OneSeparator(schema.refs[k])})

\* a render of a schema with a relationship whose explicit tables differ from
\* what its name gives by the convention, one without a separator and one with
\* two separators
C26_Witness ==
  /\ last.op = "render"
  /\ schema.present
  /\ \E k \in 1..Len(schema.refs), j \in 1..Len(refsLayer) :
       /\ Explicit(schema.refs[k])
       /\ OneSeparator(schema.refs[k])
       /\ SubSeq(schema.refs[k].name, 1, Len(schema.refs[k].fromTable))
            # schema.refs[k].fromTable
       /\ refsLayer[j].ref = schema.refs[k]
       /\ refsLayer[j].relInfo.fromTable = schema.refs[k].fromTable
  /\ \E k \in 1..Len(schema.refs) :
       ~Explicit(schema.refs[k]) /\ SepPositions(schema.refs[k].name) = {}
  /\ \E k \in 1..Len(schema.refs) :
       ~Explicit(schema.refs[k]) /\ Cardinality(SepPositions(schema.refs[k].name)) = 2

\* C27: a wheel event during a drag sets the zoom to the old zoom times 1.05
\* or 0.95 held within [0.25, 3], keeps the world point under the cursor where
\* it is on the screen, and leaves the table map, the table elements and the
\* drag closures as they are; the mousemove after it finds the one table that
\* is dragging still dragging and moves it, element and stored position alike,
\* away from its start position unless the pointer is where it was pressed
C27_WheelDuringDrag ==
  [][/\ (AnyDragging /\ last'.op = "wheel") =>
          LET mouseX == Num(last'.clientX - RectLeft)
              mouseY == Num(last'.clientY - RectTop)
              factor == IF last'.button > 0 THEN Q(95, 100) ELSE Q(105, 100)
          IN  /\ zoom' = RMax(Q(1, 4), RMin(Num(3), RMul(zoom, factor)))
              /\ screenToWorld(zoom', pan', mouseX, mouseY)
                   = screenToWorld(zoom, pan, mouseX, mouseY)
              /\ tables' = tables
              /\ tablesLayer' = tablesLayer
              /\ stale' = stale
              /\ AnyDragging'
     /\ (last.op = "wheel" /\ last'.op = "mousemove" /\ stale = <<>>) =>
          \A j \in DraggingLive :
            DraggingLive = {j} =>
              LET c == tablesLayer[j]
                  i == MapIndex(tables, KeyOf(c.table))
                  moved == <<last'.clientX - RectLeft, last'.clientY - RectTop>>
                             # <<c.startMouseX, c.startMouseY>>
              IN  /\ tablesLayer'[j].isDragging
                  /\ last'.changed
                  /\ i # 0 =>
                       /\ tables'[i].x = tablesLayer'[j].x
                       /\ tables'[i].y = tablesLayer'[j].y
                       /\ moved <=> <<tables'[i].x, tables'[i].y>> # <<c.startX, c.startY>>]_vars

\* the wheel has changed the zoom and the pan offset while a table that a
\* mousemove had already moved was still being dragged
C27_Witness ==
  /\ last.op = "wheel"
  /\ last.changed
  /\ dragged
  /\ DraggingLive # {}
  /\ zoom # Num(1)
  /\ pan # Pt(Num(0), Num(0))

\* C28: zoomIn() sets the zoom to min(3, zoom * 1.1), zoomOut() sets it to
\* max(0.25, zoom / 1.1); both, and setZoom(), show the new zoom with the old
\* pan offset and leave the pan offset, the table map and the table elements
\* as they are
C28_ZoomSteps ==
  [][/\ last'.op = "zoomIn" => zoom' = RMin(Num(3), RMul(zoom, Q(11, 10)))
     /\ last'.op = "zoomOut" => zoom' = RMax(Q(1, 4), RDiv(zoom, Q(11, 10)))
     /\ last'.op \in {"zoomIn", "zoomOut", "setZoom"} =>
          /\ pan' = pan
          /\ transform' = [x |-> pan.x, y |-> pan.y, scale |-> zoom']
          /\ tables' = tables
          /\ tablesLayer' = tablesLayer]_vars

\* zoomIn() has run into the upper limit from a zoom below it, with a pan
\* offset other than the origin
C28_Witness ==
  /\ last.op = "zoomIn"
  /\ last.changed
  /\ zoom = Num(3)
  /\ pan # Pt(Num(0), Num(0))

\* C29: the position stored in every entry of the table map is the position
\* of the entry's element, also when a render happens during a drag
C29_StoredIsDisplayed ==
  \A i \in 1..Len(tables) :
    /\ tables[i].x = tablesLayer[tables[i].el].x
    /\ tables[i].y = tablesLayer[tables[i].el].y

\* whether the renderer's svg is a child of the container: init() puts it
\* there, showDiagramError() replaces the container's content, nothing puts it
\* back
svgAttached(w) == w.diagramRenderer /\ ~w.placeholder

C31_EveryConnectorRecorded ==
  /\ \A j \in 1..Len(refsLayer) :
       \E i \in 1..Len(relationships) :
         /\ relationships[i].el = j
         /\ relationships[i].key = KeyOf(refsLayer[j].ref)
  /\ Len(relationships) = Len(refsLayer)

\* C32: at most one drag closure has isDragging set, whatever buttons were
\* pressed on which headers, and a mousemove changes the stored position of
\* at most one table
C32_AtMostOneDragging ==
  [][/\ Cardinality(DraggingLive') + Len(stale') <= 1
     /\ last'.op = "mousemove" =>
          Cardinality({i \in 1..Len(tables) :
                         <<tables'[i].x, tables'[i].y>> # <<tables[i].x, tables[i].y>>})
            <= 1]_vars

\* C33: render() leaves the zoom, the pan offset and the viewport transform
\* as they are, for a schema and for a missing one, and notifies nobody; the
\* tables it renders stand at their grid positions, wherever tables of the
\* same names stood before
C33_RenderKeepsView ==
  [][last'.op = "render" =>
       /\ zoom' = zoom
       /\ pan' = pan
       /\ transform' = transform
       /\ notified' = notified
       /\ \A i \in 1..Len(tables') :
            /\ tables'[i].x = Num(((i - 1) % 3) * 300 + 50)
            /\ tables'[i].y = Num(((i - 1) \div 3) * 250 + 50)]_vars

\* a schema has been rendered anew at a zoom and a pan offset the wheel had
\* set, while a table of the render before was being dragged
C33_Witness ==
  /\ last.op = "render"
  /\ schema.present
  /\ tables # <<>>
  /\ stale # <<>>
  /\ zoom # Num(1)
  /\ pan # Pt(Num(0), Num(0))
  /\ transform = [x |-> pan.x, y |-> pan.y, scale |-> zoom]

\* C34: a wheel event towards zooming in at zoom 3, or towards zooming out at
\* zoom 0.25, leaves the zoom, the pan offset and the viewport transform as
\* they are and makes no call of the observer
C34_WheelAtLimitNoOp ==
  [][(/\ last'.op = "wheel"
      /\ \/ zoom = Num(3) /\ last'.button <= 0
         \/ zoom = Q(1, 4) /\ last'.button > 0) =>
       /\ zoom' = zoom
       /\ pan' = pan
       /\ transform' = transform
       /\ last'.arg = Num(0)
       /\ notified' = notified
       /\ zoomDisplay' = zoomDisplay]_vars

\* the wheel has been turned towards zooming in at zoom 3, which an earlier
\* wheel event had reached with a pan offset other than the origin
C34_Witness ==
  /\ last.op = "wheel"
  /\ last.button < 0
  /\ ~last.changed
  /\ last.arg = Num(0)
  /\ zoom = Num(3)
  /\ notified = Num(3)
  /\ pan # Pt(Num(0), Num(0))

\* the calls of renderDiagram() the element has made with a renderer
Attempts(w) == w.renders + w.errors

\* C35: an edit renders nothing and leaves the timer armed; the timer runs
\* out only when armed and is then off, so that the edits since it was armed
\* are handled once; when it runs out with the editor's text other than the
\* text of the last renderDiagram(), that text is rendered, once; when the
\* two are equal nothing is rendered
C35_Debounced ==
  [][/\ last'.op = "input" =>
          /\ Attempts(widget') = Attempts(widget)
          /\ widget'.currentDbml = widget.currentDbml
          /\ widget'.fired = widget.fired
          /\ schema' = schema
          /\ widget'.timer
     /\ last'.op = "timer" =>
          /\ widget.timer
          /\ ~widget'.timer
          /\ widget'.value = widget.value
          /\ IF widget.value # widget.currentDbml
             THEN /\ Attempts(widget') = Attempts(widget) + 1
                  /\ widget'.currentDbml = widget.value
                  /\ last'.changed => schema' = simpleParseDml(widget.value)
             ELSE /\ Attempts(widget') = Attempts(widget)
                  /\ ~last'.changed
                  /\ schema' = schema]_vars

\* two changes of the editor's text have been followed by one run of the
\* timer, which has rendered the text of the second
C35_Witness ==
  /\ last.op = "timer"
  /\ last.changed
  /\ used = 4
  /\ widget.renders = 2
  /\ widget.errors = 0
  /\ Len(widget.fired) = 1
  /\ widget.currentDbml = widget.value
  /\ schema = simpleParseDml(widget.value)

====
